---- MODULE Spec2Model ----
(***************************************************************************)
(* Risp: a minimal Lisp interpreter (src/src/main.rs).                     *)
(*                                                                         *)
(* Text is a sequence of one-character strings; a token (Rust String) is   *)
(* such a sequence too, so that tokenize and parse_atom can be modelled by *)
(* what they do to characters.  Error reasons and rendered values are TLA+ *)
(* strings.  Numbers are the integers: every f64 the model reaches is a    *)
(* small integer, on which f64 arithmetic and comparison are exact.        *)
(***************************************************************************)
EXTENDS Integers, Sequences, FiniteSets, TLC

VARIABLES
    env,      \* RispEnv.data of the environment the caller owns
    line,     \* the text handed to parse_and_eval / tokenize
    tokens,   \* the token sequence handed to parse
    exp,      \* the expression handed to eval
    args,     \* the argument values handed to a builtin
    fn,       \* the builtin a call is made to
    out,      \* the Result the last call returned
    log,      \* eval's calls and builtin invocations of the last call, in order
    prev,     \* main: how the line before ended ("none", "ok", "err")
    printed,  \* main: what the last line made it print
    running   \* main: the loop has not seen "quit\n"

vars == <<env, line, tokens, exp, args, fn, out, log, prev, printed, running>>

----------------------------------------------------------------------------
(* Type definitions: enum RispExp, enum RispErr, Result.                   *)

Bool(b)   == [tag |-> "Bool",   v |-> b]
Symbol(s) == [tag |-> "Symbol", v |-> s]
Number(n) == [tag |-> "Number", v |-> n]
List(l)   == [tag |-> "List",   v |-> l]
Func(f)   == [tag |-> "Func",   v |-> f]

Reason(msg) == [reason |-> msg]

Ok(x)  == [ok |-> TRUE,  val |-> x]
Err(e) == [ok |-> FALSE, err |-> e]

\* A variable that holds nothing yet.
None == [ok |-> FALSE, err |-> [reason |-> "(no call yet)"]]

----------------------------------------------------------------------------
(* Characters and strings.                                                 *)

Digits == <<"0", "1", "2", "3", "4", "5", "6", "7", "8", "9">>

\* char::is_whitespace, on the characters the model's texts are made of.
IsWhitespace(c) == c \in {" ", "\t", "\n"}

\* The String made of the characters of s.
RECURSIVE Str(_)
Str(s) == IF s = <<>> THEN "" ELSE Head(s) \o Str(Tail(s))

----------------------------------------------------------------------------
(* Parsing.                                                                *)

\* str::replace with a one-character pattern.
RECURSIVE replace(_, _, _)
replace(s, from, to) ==
    IF s = <<>> THEN <<>>
    ELSE (IF Head(s) = from THEN to ELSE <<Head(s)>>) \o replace(Tail(s), from, to)

\* str::split_whitespace: the maximal runs of non-whitespace, in order.
\* cur is the run being read, acc the runs read so far.
RECURSIVE split_whitespace_from(_, _, _)
split_whitespace_from(s, cur, acc) ==
    IF s = <<>> THEN (IF cur = <<>> THEN acc ELSE Append(acc, cur))
    ELSE IF IsWhitespace(Head(s))
         THEN split_whitespace_from(Tail(s), <<>>,
                                    IF cur = <<>> THEN acc ELSE Append(acc, cur))
         ELSE split_whitespace_from(Tail(s), Append(cur, Head(s)), acc)

split_whitespace(s) == split_whitespace_from(s, <<>>, <<>>)

\* A tokenizer that pads "(" alone.
tokenize_open_only(expr) ==
    split_whitespace(replace(expr, "(", <<" ", "(", " ">>))

tokenize(expr) ==
    split_whitespace(replace(replace(expr, "(", <<" ", "(", " ">>),
                             ")", <<" ", ")", " ">>))

\* The value of a decimal digit.
DigitVal(c) == (CHOOSE i \in 1..10 : Digits[i] = c) - 1

IsDigit(c) == \E i \in 1..10 : Digits[i] = c

RECURSIVE DigitsVal(_, _)
DigitsVal(s, acc) ==
    IF s = <<>> THEN acc ELSE DigitsVal(Tail(s), 10 * acc + DigitVal(Head(s)))

\* str::parse::<f64> on the tokens the model's characters can spell: an
\* optional sign and one or more decimal digits.  (No '.', exponent, "inf" or
\* "nan" occurs in the model's texts.)
parse_f64(token) ==
    LET signed == token # <<>> /\ Head(token) \in {"+", "-"}
        body   == IF signed THEN Tail(token) ELSE token
    IN  IF body # <<>> /\ \A i \in 1..Len(body) : IsDigit(body[i])
        THEN Ok(IF signed /\ Head(token) = "-"
                THEN 0 - DigitsVal(body, 0) ELSE DigitsVal(body, 0))
        ELSE Err("ParseFloatError")

parse_atom(token) ==
    IF token = <<"t", "r", "u", "e">> THEN Bool(TRUE)
    ELSE IF token = <<"f", "a", "l", "s", "e">> THEN Bool(FALSE)
    ELSE LET potential_float == parse_f64(token)
         IN  IF potential_float.ok THEN Number(potential_float.val)
             ELSE Symbol(token)

\* parse and read_seq call each other; Result<(RispExp, &[String]), RispErr>
\* is [ok, val |-> [exp, rest]] or [ok, err].  read_seq_loop is read_seq's
\* loop, from the state (res, xs).
RECURSIVE parse(_), read_seq_loop(_, _), read_seq(_)

\* A sequence reader that loses the tokens after the closing parenthesis.
read_seq_loop_dropping(res, xs) ==
    IF xs = <<>> THEN Err(Reason("could not find closing ')'"))
    ELSE IF Head(xs) = <<")">> THEN Ok([exp |-> List(res), rest |-> <<>>])
    ELSE LET r == parse(xs)
         IN  IF ~r.ok THEN r
             ELSE read_seq_loop(Append(res, r.val.exp), r.val.rest)

parse(toks) ==
    IF toks = <<>> THEN Err(Reason("could not get token"))
    ELSE LET token == Head(toks)
             rest  == Tail(toks)
         IN  IF token = <<"(">> THEN read_seq(rest)
             ELSE IF token = <<")">> THEN Err(Reason("unexpexted ')'"))
             ELSE Ok([exp |-> parse_atom(token), rest |-> rest])

read_seq_loop(res, xs) ==
    IF xs = <<>> THEN Err(Reason("could not find closing ')'"))
    ELSE IF Head(xs) = <<")">> THEN Ok([exp |-> List(res), rest |-> Tail(xs)])
    ELSE LET r == parse(xs)
         IN  IF ~r.ok THEN r
             ELSE read_seq_loop(Append(res, r.val.exp), r.val.rest)

read_seq(toks) == read_seq_loop(<<>>, toks)

----------------------------------------------------------------------------
(* Builtins and the environment.                                           *)

parse_single_float(e) ==
    IF e.tag = "Number" THEN Ok(e.v) ELSE Err(Reason("expected a number"))

\* map(parse_single_float).collect::<Result<Vec<f64>, RispErr>>(): the
\* numbers in order, or the first error.
RECURSIVE parse_list_of_floats(_)
parse_list_of_floats(xs) ==
    IF xs = <<>> THEN Ok(<<>>)
    ELSE LET x == parse_single_float(Head(xs))
         IN  IF ~x.ok THEN x
             ELSE LET r == parse_list_of_floats(Tail(xs))
                  IN  IF ~r.ok THEN r ELSE Ok(<<x.val>> \o r.val)

\* iter().fold(init, |sum, a| sum + a)
RECURSIVE fold_add(_, _)
fold_add(sum, xs) ==
    IF xs = <<>> THEN sum ELSE fold_add(sum + Head(xs), Tail(xs))

\* The closure bound to "+".
builtin_add(xs) ==
    LET floats == parse_list_of_floats(xs)
    IN  IF ~floats.ok THEN floats
        ELSE Ok(Number(fold_add(0, floats.val)))

\* A subtraction that takes only the second number from the first.
builtin_sub_second_only(xs) ==
    LET floats == parse_list_of_floats(xs)
    IN  IF ~floats.ok THEN floats
        ELSE IF floats.val = <<>>
             THEN Err(Reason("expexted at least one number"))
             ELSE IF Len(floats.val) = 1 THEN Ok(Number(floats.val[1]))
             ELSE Ok(Number(floats.val[1] - floats.val[2]))

\* The closure bound to "-".
builtin_sub(xs) ==
    LET floats == parse_list_of_floats(xs)
    IN  IF ~floats.ok THEN floats
        ELSE IF floats.val = <<>>
             THEN Err(Reason("expexted at least one number"))
             ELSE LET first       == Head(floats.val)
                      sum_of_rest == fold_add(0, Tail(floats.val))
                  IN  Ok(Number(first - sum_of_rest))

\* The $check_fn each use of ensure_tonicity! is given, by the symbol it is
\* bound to.
check_fn(op, a, b) ==
    CASE op = "="  -> a = b
      [] op = ">"  -> a > b
      [] op = "<"  -> a < b
      [] op = ">=" -> a >= b
      [] op = "<=" -> a <= b

RECURSIVE tonicity_f(_, _, _)

\* A chain check that compares every number with the first one.
tonicity_f_against_first(op, prev_x, xs) ==
    IF xs = <<>> THEN TRUE
    ELSE check_fn(op, prev_x, Head(xs)) /\ tonicity_f(op, prev_x, Tail(xs))

\* ensure_tonicity!'s inner fn f(prev, xs).
tonicity_f(op, prev_x, xs) ==
    IF xs = <<>> THEN TRUE
    ELSE check_fn(op, prev_x, Head(xs)) /\ tonicity_f(op, Head(xs), Tail(xs))

\* The closure ensure_tonicity!($check_fn) expands to.
ensure_tonicity(op, xs) ==
    LET floats == parse_list_of_floats(xs)
    IN  IF ~floats.ok THEN floats
        ELSE IF floats.val = <<>>
             THEN Err(Reason("expected at least one number"))
             ELSE Ok(Bool(tonicity_f(op, Head(floats.val), Tail(floats.val))))

Comparisons == {"=", ">", "<", ">=", "<="}
Builtins    == {"+", "-"} \cup Comparisons

\* Calling the fn pointer a Func holds: f(&args).
call_func(f, xs) ==
    CASE f = "+" -> builtin_add(xs)
      [] f = "-" -> builtin_sub(xs)
      [] f \in Comparisons -> ensure_tonicity(f, xs)

\* RispEnv.data: a map from String (here: its characters) to RispExp.
default_env ==
    (<<"+">> :> Func("+")) @@ (<<"-">> :> Func("-")) @@
    (<<"=">> :> Func("=")) @@ (<<">">> :> Func(">")) @@
    (<<"<">> :> Func("<")) @@ (<<">", "=">> :> Func(">=")) @@
    (<<"<", "=">> :> Func("<="))

----------------------------------------------------------------------------
(* Evaluation.  eval borrows the environment mutably, so it hands back the *)
(* environment along with its Result; log lists, in the order they happen, *)
(* every call of eval and every invocation of a builtin.                   *)

EvalEvent(e)     == [ev |-> "eval", exp |-> e]
CallEvent(f, xs) == [ev |-> "call", f |-> f, args |-> xs]

\* A lookup that binds the symbol it misses.
eval_symbol_defining(k, en) ==
    [res |-> IF k \in DOMAIN en THEN Ok(en[k])
             ELSE Err(Reason("unexpected symbol k='" \o Str(k) \o "'")),
     env |-> IF k \in DOMAIN en THEN en ELSE (k :> Number(0)) @@ en]

\* RispExp::Symbol(k) => env.data.get(k).ok_or(..).map(|x| x.clone())
eval_symbol(k, en) ==
    [res |-> IF k \in DOMAIN en THEN Ok(en[k])
             ELSE Err(Reason("unexpected symbol k='" \o Str(k) \o "'")),
     env |-> en]

RECURSIVE eval(_, _), eval_args(_, _, _)

\* An argument evaluator that evaluates every form before it reports the
\* first failure.
eval_args_eager(forms, en, vals) ==
    IF forms = <<>> THEN [res |-> Ok(vals), env |-> en, log |-> <<>>]
    ELSE LET x == eval(Head(forms), en)
             r == eval_args(Tail(forms), x.env,
                            IF x.res.ok THEN Append(vals, x.res.val) ELSE vals)
         IN  [res |-> IF ~x.res.ok THEN x.res ELSE r.res,
              env |-> r.env,
              log |-> x.log \o r.log]

\* arg_forms.iter().map(|x| eval(x, env)).collect::<Result<Vec<_>, _>>():
\* the forms are evaluated in order until one fails; vals are the values of
\* the forms before forms.
eval_args(forms, en, vals) ==
    IF forms = <<>> THEN [res |-> Ok(vals), env |-> en, log |-> <<>>]
    ELSE LET x == eval(Head(forms), en)
         IN  IF ~x.res.ok THEN x
             ELSE LET r == eval_args(Tail(forms), x.env, Append(vals, x.res.val))
                  IN  [r EXCEPT !.log = x.log \o r.log]

\* RispExp::List(list) => ...
eval_list(list, en) ==
    IF list = <<>>
    THEN [res |-> Err(Reason("expeceted a non-empty list")), env |-> en, log |-> <<>>]
    ELSE LET first_form == Head(list)
             arg_forms  == Tail(list)
             first_eval == eval(first_form, en)
         IN  IF ~first_eval.res.ok THEN first_eval
             ELSE IF first_eval.res.val.tag = "Func"
             THEN LET f         == first_eval.res.val.v
                      args_eval == eval_args(arg_forms, first_eval.env, <<>>)
                  IN  IF ~args_eval.res.ok
                      THEN [args_eval EXCEPT !.log = first_eval.log \o args_eval.log]
                      ELSE [res |-> call_func(f, args_eval.res.val),
                            env |-> args_eval.env,
                            log |-> first_eval.log \o args_eval.log
                                    \o <<CallEvent(f, args_eval.res.val)>>]
             ELSE [res |-> Err(Reason("first form must be a function")),
                   env |-> first_eval.env, log |-> first_eval.log]

eval(e, en) ==
    LET r == CASE e.tag = "Bool"   -> [res |-> Ok(e), env |-> en, log |-> <<>>]
               [] e.tag = "Symbol" -> eval_symbol(e.v, en) @@ [log |-> <<>>]
               [] e.tag = "Number" -> [res |-> Ok(e), env |-> en, log |-> <<>>]
               [] e.tag = "List"   -> eval_list(e.v, en)
               [] e.tag = "Func"   -> [res |-> Err(Reason("unexpected form")),
                                       env |-> en, log |-> <<>>]
    IN  [r EXCEPT !.log = <<EvalEvent(e)>> \o r.log]

----------------------------------------------------------------------------
(* Display and the read-eval-print loop.                                   *)

\* u64 to decimal text.
RECURSIVE NatToString(_)
NatToString(n) ==
    IF n < 10 THEN Digits[n + 1]
    ELSE NatToString(n \div 10) \o Digits[(n % 10) + 1]

\* f64::to_string, on an integral value.
f64_to_string(n) == IF n < 0 THEN "-" \o NatToString(0 - n) ELSE NatToString(n)

\* xs.join(",")
RECURSIVE join(_, _)
join(xs, sep) ==
    IF xs = <<>> THEN ""
    ELSE IF Len(xs) = 1 THEN Head(xs)
    ELSE Head(xs) \o sep \o join(Tail(xs), sep)

\* impl fmt::Display for RispExp
RECURSIVE fmt(_)
fmt(e) ==
    CASE e.tag = "Bool"   -> IF e.v THEN "true" ELSE "false"
      [] e.tag = "Symbol" -> Str(e.v)
      [] e.tag = "Number" -> f64_to_string(e.v)
      [] e.tag = "List"   -> "(" \o join([i \in 1..Len(e.v) |-> fmt(e.v[i])], ",") \o ")"
      [] e.tag = "Func"   -> "Function {}"

\* parse_and_eval, with its locals: the tokens and the parsed expression.
parse_and_eval(expr, en) ==
    LET toks   == tokenize(expr)
        parsed == parse(toks)
    IN  IF ~parsed.ok
        THEN [res |-> parsed, env |-> en, log |-> <<>>, tokens |-> toks, exp |-> None]
        ELSE eval(parsed.val.exp, en) @@ [tokens |-> toks, exp |-> parsed.val.exp]

----------------------------------------------------------------------------
(* main: the read-eval-print loop over one environment.                    *)

MaxLineLen == 3

\* The characters a line is typed from.
Alphabet == {"(", ")", "+", "a"}

Texts(n) == UNION {[1..k -> Alphabet] : k \in 0..n}

QuitLine == <<"q", "u", "i", "t", "\n">>

\* read_input_expr: read_line keeps the line's newline.
StdinLines == {t \o <<"\n">> : t \in Texts(MaxLineLen)} \cup {QuitLine}

Init ==
    /\ env = default_env
    /\ line = <<>>
    /\ tokens = <<>>
    /\ exp = None
    /\ args = <<>>
    /\ fn = ""
    /\ out = None
    /\ log = <<>>
    /\ prev = "none"
    /\ printed = ""
    /\ running = TRUE

\* if input_expr == "quit\n" { break; }
Quit(input_expr) ==
    /\ running
    /\ input_expr = QuitLine
    /\ running' = FALSE
    /\ UNCHANGED <<env, line, tokens, exp, args, fn, out, log, prev, printed>>

\* match parse_and_eval(input_expr, env) { Ok(res) => println!(..), Err(e) => .. }
ReadEvalPrint(input_expr) ==
    /\ running
    /\ input_expr # QuitLine
    /\ LET r == parse_and_eval(input_expr, env)
       IN  /\ env' = r.env
           /\ line' = input_expr
           /\ tokens' = r.tokens
           /\ exp' = r.exp
           /\ out' = r.res
           /\ log' = r.log
           /\ printed' = IF r.res.ok THEN "=> " \o fmt(r.res.val)
                         ELSE "=> " \o r.res.err.reason
    /\ prev' = IF out = None THEN "none" ELSE IF out.ok THEN "ok" ELSE "err"
    /\ UNCHANGED <<args, fn, running>>

Next == \E input_expr \in StdinLines : Quit(input_expr) \/ ReadEvalPrint(input_expr)

Spec == Init /\ [][Next]_vars

\* The symbols the spec lists as bound: + - = > < >= <=.
BuiltinNames ==
    {<<"+">>, <<"-">>, <<"=">>, <<">">>, <<"<">>, <<">", "=">>, <<"<", "=">>}

(* C3: after any sequence of parse_and_eval calls on one environment, each *)
(* of which may succeed or fail at any stage, the environment holds exactly *)
(* the seven builtins default_env installs; so the outcome of a line is the *)
(* outcome it has on a fresh environment, whatever lines came before, and   *)
(* evaluating the line again yields the identical result.                   *)
C3_EnvironmentUnchanged ==
    /\ DOMAIN env = BuiltinNames
    /\ \A k \in DOMAIN env : env[k] = Func(Str(k))
    /\ out # None =>
         /\ out = parse_and_eval(line, default_env).res
         /\ out = parse_and_eval(line, env).res
         /\ parse_and_eval(line, env).env = env

\* A line that succeeds right after a line that failed.
C3_Witness == prev = "err" /\ out # None /\ out.ok

----------------------------------------------------------------------------
(* tokenize, called on texts that grow by one character.                   *)

MaxTextLen == 5

TextAlphabet == {"(", ")", " ", "\n", "a", "1"}

InitTokenize ==
    /\ env = default_env
    /\ line = <<>>
    /\ tokens = tokenize(<<>>)
    /\ exp = None
    /\ args = <<>>
    /\ fn = ""
    /\ out = None
    /\ log = <<>>
    /\ prev = "none"
    /\ printed = ""
    /\ running = TRUE

CallTokenize(c) ==
    /\ Len(line) < MaxTextLen
    /\ line' = Append(line, c)
    /\ tokens' = tokenize(line')
    /\ UNCHANGED <<env, exp, args, fn, out, log, prev, printed, running>>

NextTokenize == \E c \in TextAlphabet : CallTokenize(c)

SpecTokenize == InitTokenize /\ [][NextTokenize]_vars

IsParen(c) == c \in {"(", ")"}
IsPlain(c) == ~IsWhitespace(c) /\ ~IsParen(c)

\* Where a token starts in text t: at a parenthesis, and at the first
\* character of a maximal run of plain characters.
TokenStarts(t) ==
    {i \in 1..Len(t) : IsParen(t[i]) \/ (IsPlain(t[i]) /\ (i = 1 \/ ~IsPlain(t[i - 1])))}

\* Where the token that starts at i ends.
TokenEnd(t, i) ==
    IF IsParen(t[i]) THEN i
    ELSE CHOOSE j \in i..Len(t) :
            /\ \A k \in i..j : IsPlain(t[k])
            /\ j = Len(t) \/ ~IsPlain(t[j + 1])

\* The parentheses and maximal plain runs of t, in input order.
ExpectedTokens(t) ==
    LET starts == TokenStarts(t)
        nth(k) == CHOOSE i \in starts : Cardinality({j \in starts : j < i}) = k - 1
    IN  [k \in 1..Cardinality(starts) |-> SubSeq(t, nth(k), TokenEnd(t, nth(k)))]

(* C8: tokenize returns, in input order, exactly one token per parenthesis *)
(* character and one per maximal run of characters that are neither        *)
(* whitespace nor parentheses; no token is empty or contains whitespace;   *)
(* empty or all-whitespace input yields no token; "(+ 10 5)" yields        *)
(* ["(", "+", "10", "5", ")"].                                             *)
C8_Tokenize ==
    /\ tokens = ExpectedTokens(line)
    /\ \A i \in 1..Len(tokens) :
         /\ tokens[i] # <<>>
         /\ \A k \in 1..Len(tokens[i]) : ~IsWhitespace(tokens[i][k])
    /\ (\A i \in 1..Len(line) : IsWhitespace(line[i])) => tokens = <<>>
    /\ tokenize(<<"(", "+", " ", "1", "0", " ", "5", ")">>)
         = << <<"(">>, <<"+">>, <<"1", "0">>, <<"5">>, <<")">> >>

\* A run of two plain characters between parentheses, then whitespace.
C8_Witness ==
    /\ Len(line) = MaxTextLen
    /\ tokens = << <<"(">>, <<"a", "1">>, <<")">> >>

----------------------------------------------------------------------------
(* parse, called on token sequences that grow by one token.                *)

MaxTokens == 4
MaxMore == 1

Vocabulary == {<<"(">>, <<")">>, <<"+">>, <<"1">>, <<"a">>, <<"a", ",", "a">>}

TokenSeqs(n) == UNION {[1..k -> Vocabulary] : k \in 0..n}

InitParse ==
    /\ env = default_env
    /\ line = <<>>
    /\ tokens = <<>>
    /\ exp = None
    /\ args = <<>>
    /\ fn = ""
    /\ out = parse(<<>>)
    /\ log = <<>>
    /\ prev = "none"
    /\ printed = ""
    /\ running = TRUE

\* parse(&tokens); a parsed expression is rendered as the loop prints one.
CallParse(t) ==
    /\ Len(tokens) < MaxTokens
    /\ tokens' = Append(tokens, t)
    /\ out' = parse(tokens')
    /\ exp' = IF out'.ok THEN out'.val.exp ELSE None
    /\ printed' = IF out'.ok THEN fmt(out'.val.exp) ELSE ""
    /\ UNCHANGED <<env, line, args, fn, log, prev, running>>

NextParse == \E t \in Vocabulary : CallParse(t)

SpecParse == InitParse /\ [][NextParse]_vars

\* Parentheses opened and not yet closed after the first k tokens.
RECURSIVE OpenDepth(_, _)
OpenDepth(toks, k) ==
    IF k = 0 THEN 0
    ELSE OpenDepth(toks, k - 1)
         + (IF toks[k] = <<"(">> THEN 1 ELSE IF toks[k] = <<")">> THEN -1 ELSE 0)

\* The list the first token opens is closed somewhere.
FirstListCloses(toks) == \E k \in 1..Len(toks) : OpenDepth(toks, k) = 0

(* C5: parse fails with "could not get token" on an empty token sequence,  *)
(* with "unexpected ')'" on one whose first token is ")", with "could not  *)
(* find closing ')'" when the tokens run out while a list opened by "(" is *)
(* still unclosed, and succeeds otherwise.                                 *)
C5_ParseErrors ==
    IF tokens = <<>> THEN out = Err(Reason("could not get token"))
    ELSE IF Head(tokens) = <<")">> THEN out = Err(Reason("unexpected ')'"))
    ELSE IF Head(tokens) = <<"(">> /\ ~FirstListCloses(tokens)
         THEN out = Err(Reason("could not find closing ')'"))
         ELSE out.ok

\* The text of a token sequence: its tokens, a space between two.
RECURSIVE Unwords(_)
Unwords(toks) ==
    IF toks = <<>> THEN <<>>
    ELSE IF Len(toks) = 1 THEN Head(toks)
    ELSE Head(toks) \o <<" ">> \o Unwords(Tail(toks))

(* C7: when parse succeeds on t with (e, rest), parse(t ++ s) succeeds     *)
(* with (e, rest ++ s) for every token sequence s, unmatched parentheses   *)
(* included; parse_and_eval discards the leftover, so its outcome on       *)
(* t ++ s is that of evaluating e; "(+ 1 2) garbage" evaluates to 3.       *)
C7_FirstExpressionOnly ==
    /\ out.ok =>
         \A s \in TokenSeqs(MaxMore) :
            /\ parse(tokens \o s)
                 = Ok([exp |-> out.val.exp, rest |-> out.val.rest \o s])
            /\ tokenize(Unwords(tokens \o s)) = tokens \o s
            /\ parse_and_eval(Unwords(tokens \o s), env).res
                 = eval(out.val.exp, env).res
    /\ parse_and_eval(<<"(", "+", " ", "1", " ", "2", ")", " ",
                        "g", "a", "r", "b", "a", "g", "e">>, default_env).res
         = Ok(Number(1 + 2))

\* A list was parsed, a token was left over, and the list evaluates.
C7_Witness ==
    /\ out.ok
    /\ out.val.exp.tag = "List"
    /\ out.val.rest # <<>>
    /\ eval(out.val.exp, env).res.ok

\* The input is one complete expression and nothing more.
WellFormed(toks) == parse(toks).ok /\ parse(toks).val.rest = <<>>

\* The grouping of a tree: its lists, with every atom replaced by a mark.
RECURSIVE Grouping(_)
Grouping(e) ==
    IF e.tag = "List"
    THEN [list |-> TRUE, elems |-> [i \in 1..Len(e.v) |-> Grouping(e.v[i])]]
    ELSE [list |-> FALSE, elems |-> <<>>]

(* C9: for well-formed balanced inputs, rendering the parsed tree keeps    *)
(* the grouping and order of its elements: two inputs whose parsed trees   *)
(* differ in grouping or element order never render to the same text.      *)
C9_RenderKeepsNesting ==
    WellFormed(tokens) =>
      \A other \in TokenSeqs(MaxTokens) :
         (WellFormed(other)
            /\ Grouping(parse(other).val.exp) # Grouping(parse(tokens).val.exp))
         => fmt(parse(other).val.exp) # fmt(parse(tokens).val.exp)

----------------------------------------------------------------------------
(* eval, called on expression trees that grow by one node: a new last      *)
(* element of a list on the tree's rightmost spine.                        *)

MaxNodes == 6

Leaves == {Number(1), Bool(TRUE), Symbol(<<"+">>), Symbol(<<"a">>), List(<<>>)}

RECURSIVE Size(_), SizeOfElems(_)
Size(e) == IF e.tag = "List" THEN 1 + SizeOfElems(e.v) ELSE 1
SizeOfElems(es) == IF es = <<>> THEN 0 ELSE Size(Head(es)) + SizeOfElems(Tail(es))

\* The lists on the rightmost spine of e.
RECURSIVE SpineDepth(_)
SpineDepth(e) ==
    IF e.tag # "List" THEN 0
    ELSE IF e.v = <<>> THEN 1
    ELSE 1 + SpineDepth(e.v[Len(e.v)])

\* e with x as the new last element of the d-th list of its rightmost spine.
RECURSIVE AddLast(_, _, _)
AddLast(e, d, x) ==
    IF d = 1 THEN List(Append(e.v, x))
    ELSE List([e.v EXCEPT ![Len(e.v)] = AddLast(e.v[Len(e.v)], d - 1, x)])

InitEval ==
    /\ env = default_env
    /\ line = <<>>
    /\ tokens = <<>>
    /\ exp = None
    /\ args = <<>>
    /\ fn = ""
    /\ out = None
    /\ log = <<>>
    /\ prev = "none"
    /\ printed = ""
    /\ running = TRUE

\* eval(&exp, env), exp being exp1.
CallEval(exp1) ==
    /\ exp' = exp1
    /\ LET r == eval(exp1, env)
       IN  /\ out' = r.res
           /\ log' = r.log
           /\ env' = r.env
    /\ UNCHANGED <<line, tokens, args, fn, prev, printed, running>>

EvalLeaf(x) ==
    /\ exp = None
    /\ CallEval(x)

EvalGrown(d, x) ==
    /\ exp # None
    /\ Size(exp) < MaxNodes
    /\ d \in 1..SpineDepth(exp)
    /\ CallEval(AddLast(exp, d, x))

NextEval ==
    \/ \E x \in Leaves : EvalLeaf(x)
    \/ \E d \in 1..MaxNodes, x \in Leaves : EvalGrown(d, x)

SpecEval == InitEval /\ [][NextEval]_vars

(* C4: eval fails with "unexpected symbol k='<name>'" on a Symbol the      *)
(* environment does not bind, with "expected a non-empty list" on an empty *)
(* List, and with "first form must be a function" on a non-empty List      *)
(* whose first element evaluates to anything but a Func, whatever follows  *)
(* it: the remaining elements are not evaluated.                           *)
C4_EvalErrors ==
    exp # None =>
      /\ (exp.tag = "Symbol" /\ exp.v \notin DOMAIN env)
           => out = Err(Reason("unexpected symbol k='" \o Str(exp.v) \o "'"))
      /\ exp = List(<<>>) => out = Err(Reason("expected a non-empty list"))
      /\ (exp.tag = "List" /\ exp.v # <<>>)
           => LET first == eval(Head(exp.v), env)
              IN  (first.res.ok /\ first.res.val.tag # "Func")
                    => /\ out = Err(Reason("first form must be a function"))
                       /\ log = <<EvalEvent(exp)>> \o first.log

\* The logs of the first n of rs, one after the other.
RECURSIVE ConcatLogs(_, _)
ConcatLogs(rs, n) == IF n = 0 THEN <<>> ELSE ConcatLogs(rs, n - 1) \o rs[n].log

(* C10: when the first element of a non-empty List evaluates to a Func,    *)
(* the remaining elements are evaluated left to right after it; if element *)
(* i is the first to fail, eval returns that element's error, evaluates no *)
(* element after i and does not invoke the builtin; otherwise the builtin  *)
(* is invoked once, with the values in order, and its result or error is   *)
(* returned unchanged.                                                     *)
C10_ArgumentOrder ==
    (exp # None /\ exp.tag = "List" /\ exp.v # <<>>) =>
      LET first == eval(Head(exp.v), env)
          forms == Tail(exp.v)
          rs    == [i \in 1..Len(forms) |-> eval(forms[i], env)]
          fails == {i \in 1..Len(forms) : ~rs[i].res.ok}
          i0    == IF fails = {} THEN 0
                   ELSE CHOOSE i \in fails : \A j \in fails : i <= j
          vals  == [i \in 1..Len(forms) |-> rs[i].res.val]
          calls == {k \in 1..Len(log) :
                      log[k].ev = "call" /\ k > Len(first.log) + 1
                        + Len(ConcatLogs(rs, IF i0 = 0 THEN Len(forms) ELSE i0))}
      IN  (first.res.ok /\ first.res.val.tag = "Func") =>
            IF i0 # 0
            THEN /\ out = rs[i0].res
                 /\ log = <<EvalEvent(exp)>> \o first.log \o ConcatLogs(rs, i0)
                 /\ calls = {}
            ELSE /\ out = call_func(first.res.val.v, vals)
                 /\ log = <<EvalEvent(exp)>> \o first.log
                            \o ConcatLogs(rs, Len(forms))
                            \o <<CallEvent(first.res.val.v, vals)>>
                 /\ Cardinality(calls) = 1

\* A builtin's second argument fails and a third follows it.
C10_Witness ==
    /\ exp # None
    /\ exp.tag = "List"
    /\ Len(exp.v) = 4
    /\ exp.v[1] = Symbol(<<"+">>)
    /\ eval(exp.v[2], env).res.ok
    /\ ~eval(exp.v[3], env).res.ok
    /\ ~out.ok

----------------------------------------------------------------------------
(* The builtins, called on argument sequences that grow by one value.      *)

MaxArgs == 4

ArgValues ==
    {Number(1), Number(3), Number(4), Number(6),
     Bool(TRUE), Symbol(<<"a">>), List(<<>>), Func("+")}

InitBuiltin ==
    /\ env = default_env
    /\ line = <<>>
    /\ tokens = <<>>
    /\ exp = None
    /\ args = <<>>
    /\ fn = ""
    /\ out = None
    /\ log = <<>>
    /\ prev = "none"
    /\ printed = ""
    /\ running = TRUE

\* f(&xs), f being the fn pointer bound to symbol f.
CallBuiltin(f, xs) ==
    /\ fn' = f
    /\ args' = xs
    /\ out' = call_func(f, xs)
    /\ UNCHANGED <<env, line, tokens, exp, log, prev, printed, running>>

CallNoArgs(f) ==
    /\ args = <<>>
    /\ CallBuiltin(f, <<>>)

CallMoreArgs(f, x) ==
    /\ Len(args) < MaxArgs
    /\ CallBuiltin(f, Append(args, x))

NextBuiltin ==
    \/ \E f \in Builtins : CallNoArgs(f)
    \/ \E f \in Builtins, x \in ArgValues : CallMoreArgs(f, x)

SpecBuiltin == InitBuiltin /\ [][NextBuiltin]_vars

AllNumbers(xs) == \A i \in 1..Len(xs) : xs[i].tag = "Number"

\* The relation a comparison symbol names.
Holds(op, a, b) ==
    \/ op = "="  /\ a = b
    \/ op = ">"  /\ b < a
    \/ op = "<"  /\ a < b
    \/ op = ">=" /\ ~(a < b)
    \/ op = "<=" /\ ~(b < a)

(* C1: a comparison builtin applied to a non-empty sequence of Numbers     *)
(* returns Bool(true) iff the comparison holds between every adjacent      *)
(* pair, Bool(false) otherwise; a single argument gives true,              *)
(* (> 6 4 3 1) is true and (> 6 4 3 4) is false.                           *)
C1_ChainedComparison ==
    /\ (fn \in Comparisons /\ args # <<>> /\ AllNumbers(args))
         => out = Ok(Bool(\A i \in 1..(Len(args) - 1) :
                             Holds(fn, args[i].v, args[i + 1].v)))
    /\ (fn \in Comparisons /\ Len(args) = 1 /\ AllNumbers(args))
         => out = Ok(Bool(TRUE))
    /\ (fn = ">" /\ args = <<Number(6), Number(4), Number(3), Number(1)>>)
         => out = Ok(Bool(TRUE))
    /\ (fn = ">" /\ args = <<Number(6), Number(4), Number(3), Number(4)>>)
         => out = Ok(Bool(FALSE))

\* (> 6 4 3 4): the first number is greater than every other, the third is
\* not greater than the fourth.
C1_Witness ==
    /\ fn = ">"
    /\ args = <<Number(6), Number(4), Number(3), Number(4)>>
    /\ out = Ok(Bool(FALSE))

(* C6: every builtin applied to arguments that contain a non-Number fails  *)
(* with "expected a number"; "-" and each comparison applied to no         *)
(* argument fail with "expected at least one number".                      *)
C6_BuiltinErrors ==
    fn \in Builtins =>
      /\ ~AllNumbers(args) => out = Err(Reason("expected a number"))
      /\ (args = <<>> /\ fn # "+") => out = Err(Reason("expected at least one number"))

----------------------------------------------------------------------------
(* parse_and_eval, called on the text of arithmetic expressions that grow  *)
(* by one node: a number literal, or a new application of + or -.          *)

MaxArithNodes == 8

Literals == {Number(3), Number(10)}

NewNodes == Literals \cup {List(<<Symbol(<<"+">>)>>), List(<<Symbol(<<"-">>)>>)}

\* The decimal digits of n.
RECURSIVE NatChars(_)
NatChars(n) ==
    IF n < 10 THEN <<Digits[n + 1]>>
    ELSE Append(NatChars(n \div 10), Digits[(n % 10) + 1])

\* Source text of an expression: elements of a list separated by a space.
RECURSIVE Unparse(_), UnparseElems(_)
Unparse(e) ==
    CASE e.tag = "Number" -> IF e.v < 0 THEN <<"-">> \o NatChars(0 - e.v)
                             ELSE NatChars(e.v)
      [] e.tag = "Symbol" -> e.v
      [] e.tag = "List"   -> <<"(">> \o UnparseElems(e.v) \o <<")">>
UnparseElems(es) ==
    IF es = <<>> THEN <<>>
    ELSE IF Len(es) = 1 THEN Unparse(Head(es))
    ELSE Unparse(Head(es)) \o <<" ">> \o UnparseElems(Tail(es))

InitArith ==
    /\ env = default_env
    /\ line = <<>>
    /\ tokens = <<>>
    /\ exp = None
    /\ args = <<>>
    /\ fn = ""
    /\ out = None
    /\ log = <<>>
    /\ prev = "none"
    /\ printed = ""
    /\ running = TRUE

\* parse_and_eval(expr, env), expr being the text of e.
CallParseAndEval(e) ==
    /\ exp' = e
    /\ line' = Unparse(e)
    /\ LET r == parse_and_eval(line', env)
       IN  /\ tokens' = r.tokens
           /\ out' = r.res
           /\ log' = r.log
           /\ env' = r.env
           /\ printed' = IF r.res.ok THEN fmt(r.res.val) ELSE r.res.err.reason
    /\ UNCHANGED <<args, fn, prev, running>>

ArithStart(x) ==
    /\ exp = None
    /\ CallParseAndEval(x)

ArithGrown(d, x) ==
    /\ exp # None
    /\ Size(exp) + Size(x) <= MaxArithNodes
    /\ d \in 1..SpineDepth(exp)
    /\ CallParseAndEval(AddLast(exp, d, x))

NextArith ==
    \/ \E x \in NewNodes : ArithStart(x)
    \/ \E d \in 1..MaxArithNodes, x \in NewNodes : ArithGrown(d, x)

SpecArith == InitArith /\ [][NextArith]_vars

\* e is a number literal or an application of + or - to such expressions,
\* - having at least one argument.
RECURSIVE IsArith(_)
IsArith(e) ==
    \/ e.tag = "Number"
    \/ /\ e.tag = "List"
       /\ e.v # <<>>
       /\ Head(e.v) \in {Symbol(<<"+">>), Symbol(<<"-">>)}
       /\ Head(e.v) = Symbol(<<"-">>) => Len(e.v) > 1
       /\ \A i \in 2..Len(e.v) : IsArith(e.v[i])

\* The sum of a sequence of numbers.
RECURSIVE Sum(_)
Sum(ns) == IF ns = <<>> THEN 0 ELSE Sum(SubSeq(ns, 1, Len(ns) - 1)) + ns[Len(ns)]

\* The reference arithmetic: inner applications first.
RECURSIVE RefValue(_)
RefValue(e) ==
    IF e.tag = "Number" THEN e.v
    ELSE LET ns == [i \in 1..(Len(e.v) - 1) |-> RefValue(e.v[i + 1])]
         IN  IF Head(e.v) = Symbol(<<"+">>) THEN Sum(ns)
             ELSE ns[1] - Sum(Tail(ns))

(* C2: on an expression built only from number literals and nested         *)
(* applications of + and - (- with at least one argument), parse_and_eval  *)
(* on default_env returns the Number of the reference arithmetic: (+) is   *)
(* 0, (- a) is a, (- a1..an) is a1 minus the sum of the rest, and          *)
(* (+ 10 5 (- 10 3 3)) is 19.                                              *)
C2_Arithmetic ==
    /\ (exp # None /\ IsArith(exp)) => out = Ok(Number(RefValue(exp)))
    /\ parse_and_eval(<<"(", "+", " ", "1", "0", " ", "5", " ", "(", "-", " ",
                        "1", "0", " ", "3", " ", "3", ")", ")">>, default_env).res
         = Ok(Number(19))
    /\ parse_and_eval(<<"(", "+", ")">>, default_env).res = Ok(Number(0))
    /\ parse_and_eval(<<"(", "-", " ", "5", ")">>, default_env).res = Ok(Number(5))

\* A subtraction of three numbers, the first of them a nested sum.
C2_Witness ==
    /\ exp # None
    /\ IsArith(exp)
    /\ exp.tag = "List"
    /\ Len(exp.v) = 4
    /\ exp.v[1] = Symbol(<<"-">>)
    /\ exp.v[2].tag = "List"
    /\ Len(exp.v[2].v) > 1
    /\ out.ok

====
